---- MODULE Spec2Model ----
(***************************************************************************)
(* Alert suppression and deduplication                                     *)
(* (correlation_alert_suppression_deduplication.py).                       *)
(*                                                                         *)
(* The module models suppress_and_deduplicate statement by statement: the  *)
(* sorted private copy, the alert_hash column, the single pass over the    *)
(* sorted rows with the suppression_end dictionary, and the returned       *)
(* DataFrame.  DataFrames are objects on a heap, so that the difference    *)
(* between the caller's frame and the function's private copy is part of   *)
(* the state.  Time is counted in ticks, TicksPerMinute ticks to a minute. *)
(***************************************************************************)
EXTENDS Integers, Sequences, FiniteSets, TLC

\* ---------------------------------------------------------------- bounds
MaxAlerts == 3
MaxTime == 3
MaxWindow == 1
TicksPerMinute == 2
MaxHashRows == 3
MaxRuleAlerts == 3
MaxRuns == 2
MaxNodes == 7
MaxPriorityAlerts == 4
MaxRcaAlerts == 6

\* ------------------------------------------------------------ alert data
Services == {"Service_0", "Service_1"}
AlertTypes == {"CPU"}
Severities == {"Low"}
Timestamps == 0..MaxTime

\* The slider offers 1..60 minutes; the function itself takes any number,
\* so a zero and a negative window are drawn too.
Windows == (-1)..MaxWindow

\* One row of the frame generate_alerts builds, as a record of its columns.
AlertRow(i, s, a, v, t) ==
    [alert_id |-> i, service |-> s, alert_type |-> a, severity |-> v, timestamp |-> t]

\* The frames generate_alerts can return with n rows: alert_id is the row's
\* position (from 0), the other columns are drawn freely.
RECURSIVE AlertFrames(_)
AlertFrames(n) ==
    IF n = 0 THEN {<<>>}
    ELSE {Append(f, AlertRow(n - 1, s, a, v, t)) :
            f \in AlertFrames(n - 1), s \in Services, a \in AlertTypes,
            v \in Severities, t \in Timestamps}

generate_alerts == UNION {AlertFrames(n) : n \in 0..MaxAlerts}

\* ------------------------------------------------------------ the helpers
\* Variant: the severity left out of the hashed string.
HashInputNoSeverity(row) == row.service \o "_" \o row.alert_type

\* f"{row['service']}_{row['alert_type']}_{row['severity']}"
HashInput(row) == row.service \o "_" \o row.alert_type \o "_" \o row.severity

\* hashlib.md5(...).hexdigest(): a digest determined by the encoded string.
md5_hexdigest(s) == <<"md5", s>>

alert_hash_of(row) == md5_hexdigest(HashInput(row))

\* The row with the alert_hash column set (added, or overwritten).
WithHash(row) ==
    [alert_id |-> row.alert_id, service |-> row.service,
     alert_type |-> row.alert_type, severity |-> row.severity,
     timestamp |-> row.timestamp, alert_hash |-> alert_hash_of(row)]

\* datetime.timedelta(minutes=m), in ticks.
timedelta_minutes(m) == m * TicksPerMinute

\* pd.NaT, the missing timestamp: a value apart from every time and every
\* expiry of the model.
NaT == -(100 * (MaxTime + 1))

\* a <= b on timestamps: every comparison with NaT is False.
timestamp_le(a, b) == a # NaT /\ b # NaT /\ a <= b

\* t + timedelta: NaT plus a timedelta is NaT.
timestamp_plus(t, d) == IF t = NaT THEN NaT ELSE t + d

\* Ascending, the rows without a timestamp last (na_position='last').
IsSortedByTimestamp(frame) ==
    \A i, j \in 1..Len(frame) :
        i < j => \/ frame[j].timestamp = NaT
                 \/ timestamp_le(frame[i].timestamp, frame[j].timestamp)

\* Variant: no sort, the rows are taken in the order given.
SortedOrdersAsGiven(frame) == {frame}

\* The row orders sort_values('timestamp') can produce.  Its default kind is
\* quicksort, which is not stable: rows with equal timestamps may come out in
\* any order.
\* The rows without a timestamp are put last in the order they had.
SortedOrders(frame) ==
    {[i \in 1..Len(frame) |-> frame[p[i]]] :
        p \in {q \in Permutations(1..Len(frame)) :
                 /\ IsSortedByTimestamp([i \in 1..Len(frame) |-> frame[q[i]]])
                 /\ \A i, j \in 1..Len(frame) :
                        (i < j /\ frame[q[i]].timestamp = NaT) => q[i] < q[j]}}

\* Variant: the sort done in place (inplace=True), on the object passed in.
sort_values_inplace(h, ref, order) ==
    [heap |-> [h EXCEPT ![ref] = order], ref |-> ref]

\* df.sort_values('timestamp'): a new frame object holding the rows in the
\* order chosen; the frame it was called on is left as it was.
sort_values(h, ref, order) ==
    [heap |-> Append(h, order), ref |-> Len(h) + 1]

\* df['alert_hash'] = df.apply(...): sets the column in the object df names.
set_alert_hash(h, ref) ==
    [h EXCEPT ![ref] = [i \in 1..Len(h[ref]) |-> WithHash(h[ref][i])]]

\* Variant: the boundary taken as exclusive (< for <=).
SuppressedExclusive(alert, se) ==
    /\ alert.alert_hash \in DOMAIN se
    /\ alert.timestamp < se[alert.alert_hash]

\* Variant: one window for all keys (the hash is not used for the lookup).
SuppressedAnyKey(alert, se) ==
    \E k \in DOMAIN se : alert.timestamp <= se[k]

\* Variant: the lookup with a default (suppression_end.get(hash, current_time)).
SuppressedDefaultNow(alert, se) ==
    IF alert.alert_hash \in DOMAIN se
    THEN alert.timestamp <= se[alert.alert_hash]
    ELSE TRUE

\* alert_hash in suppression_end and current_time <= suppression_end[alert_hash]
Suppressed(alert, se) ==
    /\ alert.alert_hash \in DOMAIN se
    /\ timestamp_le(alert.timestamp, se[alert.alert_hash])

\* Variant: a sliding window, every event of the key moves the expiry.
LoopBodySliding(st, alert, w) ==
    IF Suppressed(alert, st.suppression_end)
    THEN [st EXCEPT !.suppression_end[alert.alert_hash] =
                        alert.timestamp + timedelta_minutes(w)]
    ELSE [suppression_end |->
              (alert.alert_hash :> (alert.timestamp + timedelta_minutes(w)))
                  @@ st.suppression_end,
          processed_alerts |-> Append(st.processed_alerts, alert)]

\* Variant: the row is appended before the check as well as after it.
LoopBodyDoubleAppend(st, alert, w) ==
    IF Suppressed(alert, st.suppression_end)
    THEN [st EXCEPT !.processed_alerts = Append(st.processed_alerts, alert)]
    ELSE [suppression_end |->
              (alert.alert_hash :> (alert.timestamp + timedelta_minutes(w)))
                  @@ st.suppression_end,
          processed_alerts |-> Append(Append(st.processed_alerts, alert), alert)]

\* Variant: a surviving row also purges the entries that have expired.
LoopBodyPurgeExpired(st, alert, w) ==
    IF Suppressed(alert, st.suppression_end)
    THEN st
    ELSE LET live == {k \in DOMAIN st.suppression_end :
                         st.suppression_end[k] >= alert.timestamp}
         IN  [suppression_end |->
                  (alert.alert_hash :> (alert.timestamp + timedelta_minutes(w)))
                      @@ [k \in live |-> st.suppression_end[k]],
              processed_alerts |-> Append(st.processed_alerts, alert)]

\* Variant: the expiry is set two windows after the surviving row.
LoopBodyWindowDoubled(st, alert, w) ==
    IF Suppressed(alert, st.suppression_end)
    THEN st
    ELSE [suppression_end |->
              (alert.alert_hash :> (alert.timestamp + timedelta_minutes(2 * w)))
                  @@ st.suppression_end,
          processed_alerts |-> Append(st.processed_alerts, alert)]

\* One iteration of the loop over df.iterrows(), on the loop's state
\* st = [suppression_end, processed_alerts].
LoopBody(st, alert, w) ==
    IF Suppressed(alert, st.suppression_end)
    THEN st
    ELSE [suppression_end |->
              (alert.alert_hash :>
                   timestamp_plus(alert.timestamp, timedelta_minutes(w)))
                  @@ st.suppression_end,
          processed_alerts |-> Append(st.processed_alerts, alert)]

\* ------------------------------------------------------------- the state
VARIABLES
    heap,               \* the DataFrame objects, by reference (1, 2, ...)
    session_state,      \* st.session_state: key -> reference
    suppression_window, \* the sidebar's suppression window, in minutes
    pc,                 \* where the current call of the function stands
    mode,               \* which call this is: "app", "reapply" or "keyonly"
    arg,                \* the frame passed as df
    df,                 \* the local name df after line 158
    suppression_end,    \* the dictionary hash -> end of suppression
    processed_alerts,   \* the list of surviving rows
    idx,                \* the next row of df.iterrows()
    ret,                \* the frame returned by the current call
    only_key,           \* the hash a "keyonly" call was restricted to
    stats,              \* the reduction statistics the page displays
    \* correlation_rule_based.py
    rb_pc,              \* where the script run of the rule page stands
    rb_df,              \* df, the alerts of this run (line 66)
    rb_session_state,   \* st.session_state of the rule page
    rb_run,             \* the number of interactions handled so far
    rb_form,            \* the form submission handled last and its message
    rb_rule,            \* tab3: the rule applied
    rb_filtered_df,     \* tab3: filtered_df
    rb_correlated_alerts, \* tab3: correlated_alerts
    \* the other pages, each a record of the page's names
    tp,                 \* correlation_topology_based.py: the path analysis
    pr,                 \* correlation_alert_prioritization.py: the scores
    rca,                \* correlation_rca_based.py: perform_rca
    quiz                \* the scored quiz: st.session_state and the shown form

\* The state of the suppression page and of the rule page.
dedupvars == <<heap, session_state, suppression_window, pc, mode, arg, df,
               suppression_end, processed_alerts, idx, ret, only_key, stats>>
rbvars == <<rb_pc, rb_df, rb_session_state, rb_run, rb_form, rb_rule,
            rb_filtered_df, rb_correlated_alerts>>
vars == <<heap, session_state, suppression_window, pc, mode, arg, df,
          suppression_end, processed_alerts, idx, ret, only_key, stats,
          rb_pc, rb_df, rb_session_state, rb_run, rb_form, rb_rule,
          rb_filtered_df, rb_correlated_alerts, tp, pr, rca, quiz>>
pagevars == <<tp, pr, rca, quiz>>

NoKey == <<"none">>
EmptyDict == <<>>
NoForm == <<>>
NoRule == <<>>

\* A page not opened.
PageIdle == [pc |-> "idle"]
OtherPagesIdle ==
    /\ tp = PageIdle
    /\ pr = PageIdle
    /\ rca = PageIdle
    /\ quiz = PageIdle

\* The rule page not opened.
RulePageIdle ==
    /\ rb_pc = "idle"
    /\ rb_df = <<>>
    /\ rb_session_state = EmptyDict
    /\ rb_run = 0
    /\ rb_form = NoForm
    /\ rb_rule = NoRule
    /\ rb_filtered_df = <<>>
    /\ rb_correlated_alerts = <<>>

Init ==
    /\ \E f \in generate_alerts : heap = <<f>>
    /\ session_state = [original_alerts |-> 1]
    /\ suppression_window \in Windows
    /\ pc = "call"
    /\ mode = "app"
    /\ arg = 1
    /\ df = 0
    /\ suppression_end = EmptyDict
    /\ processed_alerts = <<>>
    /\ idx = 0
    /\ ret = 0
    /\ only_key = NoKey
    /\ stats = EmptyDict
    /\ RulePageIdle
    /\ OtherPagesIdle

\* Lines 157-166: the sorted copy, the hash column, the empty dictionary and
\* list.  On a frame without rows the column assignment raises (df.apply
\* returns a frame, not a column).
SortAndHash ==
    /\ pc = "call"
    /\ \/ /\ heap[arg] = <<>>
          /\ pc' = "raised"
          /\ UNCHANGED <<heap, df, suppression_end, processed_alerts, idx>>
       \/ /\ heap[arg] # <<>>
          /\ \E order \in SortedOrders(heap[arg]) :
                LET s == sort_values(heap, arg, order) IN
                /\ heap' = set_alert_hash(s.heap, s.ref)
                /\ df' = s.ref
          /\ suppression_end' = EmptyDict
          /\ processed_alerts' = <<>>
          /\ idx' = 1
          /\ pc' = "loop"
    /\ UNCHANGED <<session_state, suppression_window, mode, arg, ret, only_key,
                   stats>>
    /\ UNCHANGED rbvars
    /\ UNCHANGED pagevars

\* Lines 167-177: one row of the pass.
LoopIteration ==
    /\ pc = "loop"
    /\ idx <= Len(heap[df])
    /\ LET st == LoopBody([suppression_end |-> suppression_end,
                           processed_alerts |-> processed_alerts],
                          heap[df][idx], suppression_window) IN
        /\ suppression_end' = st.suppression_end
        /\ processed_alerts' = st.processed_alerts
    /\ idx' = idx + 1
    /\ UNCHANGED <<heap, session_state, suppression_window, pc, mode, arg, df,
                   ret, only_key, stats>>
    /\ UNCHANGED rbvars
    /\ UNCHANGED pagevars

\* Lines 179-182: the frame built from the list is returned; the page's call
\* stores it under 'processed_alerts' and goes on to the statistics.
Return ==
    /\ pc = "loop"
    /\ idx > Len(heap[df])
    /\ heap' = Append(heap, processed_alerts)
    /\ ret' = Len(heap) + 1
    /\ session_state' =
          IF mode = "app"
          THEN ("processed_alerts" :> (Len(heap) + 1)) @@ session_state
          ELSE session_state
    /\ pc' = IF mode = "app" THEN "stats" ELSE "done"
    /\ UNCHANGED <<suppression_window, mode, arg, df, suppression_end,
                   processed_alerts, idx, only_key, stats>>
    /\ UNCHANGED rbvars
    /\ UNCHANGED pagevars

\* Variant: the processed count taken as the number of distinct hashes.
ReductionCountsDistinctKeys(original, processed) ==
    [original_count |-> Len(original),
     processed_count |-> Cardinality({processed[i].alert_hash : i \in 1..Len(processed)})]

\* original_count = len(original_alerts); processed_count = len(processed_alerts)
ReductionCounts(original, processed) ==
    [original_count |-> Len(original), processed_count |-> Len(processed)]

\* Lines 188-195: the reduction statistics.  The percentage
\* ((original_count - processed_count) / original_count) * 100 is kept as the
\* fraction num / den; the division raises when original_count is 0.
ReductionStatistics ==
    /\ pc = "stats"
    /\ LET c == ReductionCounts(heap[session_state.original_alerts],
                                heap[session_state.processed_alerts]) IN
        IF c.original_count = 0
        THEN /\ pc' = "raised"
             /\ stats' = stats
        ELSE /\ pc' = "done"
             /\ stats' = [original_count |-> c.original_count,
                          processed_count |-> c.processed_count,
                          reduction_percentage |->
                              [num |-> (c.original_count - c.processed_count) * 100,
                               den |-> c.original_count]]
    /\ UNCHANGED <<heap, session_state, suppression_window, mode, arg, df,
                   suppression_end, processed_alerts, idx, ret, only_key>>
    /\ UNCHANGED rbvars
    /\ UNCHANGED pagevars

\* The function applied to its own output, with the same window.
Reapply ==
    /\ pc = "done"
    /\ mode = "app"
    /\ mode' = "reapply"
    /\ arg' = ret
    /\ pc' = "call"
    /\ UNCHANGED <<heap, session_state, suppression_window, df, suppression_end,
                   processed_alerts, idx, ret, only_key, stats>>
    /\ UNCHANGED rbvars
    /\ UNCHANGED pagevars

\* The rows of a frame whose hash is k, in the frame's order.
RowsOfKey(frame, k) == SelectSeq(frame, LAMBDA row : alert_hash_of(row) = k)

\* The function applied to the rows of one grouping key of the original
\* frame alone, with the same window.
KeyOnly ==
    /\ pc = "done"
    /\ mode = "app"
    /\ \E i \in 1..Len(heap[1]) :
          LET k == alert_hash_of(heap[1][i]) IN
          /\ only_key' = k
          /\ heap' = Append(heap, RowsOfKey(heap[1], k))
    /\ arg' = Len(heap) + 1
    /\ mode' = "keyonly"
    /\ pc' = "call"
    /\ UNCHANGED <<session_state, suppression_window, df, suppression_end,
                   processed_alerts, idx, ret, stats>>
    /\ UNCHANGED rbvars
    /\ UNCHANGED pagevars

\* Same-key events have pairwise distinct timestamps.
DistinctTimestampsPerKey(frame) ==
    \A i, j \in 1..Len(frame) :
        (i # j /\ alert_hash_of(frame[i]) = alert_hash_of(frame[j]))
            => frame[i].timestamp # frame[j].timestamp

\* The function applied to a permutation of the original frame, with the
\* same window.
Permute ==
    /\ pc = "done"
    /\ mode = "app"
    /\ \E p \in Permutations(1..Len(heap[1])) :
          heap' = Append(heap, [i \in 1..Len(heap[1]) |-> heap[1][p[i]]])
    /\ arg' = Len(heap) + 1
    /\ mode' = "permuted"
    /\ pc' = "call"
    /\ UNCHANGED <<session_state, suppression_window, df, suppression_end,
                   processed_alerts, idx, ret, only_key, stats>>
    /\ UNCHANGED rbvars
    /\ UNCHANGED pagevars

Next ==
    \/ SortAndHash
    \/ LoopIteration
    \/ Return
    \/ ReductionStatistics
    \/ Reapply
    \/ KeyOnly

Spec == Init /\ [][Next]_vars

\* The hash column: frames of up to MaxHashRows rows whose service, alert
\* type and severity each take two values of those generate_alerts draws,
\* passed through the function and through the function again.  The rows
\* are generated newest first, one tick apart, so that every row has its own
\* alert_id and its own timestamp.
HashServices == {"Service_0", "Service_1"}
HashAlertTypes == {"CPU", "Memory"}
HashSeverities == {"Low", "Critical"}

RECURSIVE HashFrames(_)
HashFrames(n) ==
    IF n = 0 THEN {<<>>}
    ELSE {Append(f, AlertRow(n - 1, s, a, v, MaxHashRows - n)) :
            f \in HashFrames(n - 1), s \in HashServices, a \in HashAlertTypes,
            v \in HashSeverities}

InitHash ==
    /\ \E n \in 1..MaxHashRows : \E f \in HashFrames(n) : heap = <<f>>
    /\ session_state = [original_alerts |-> 1]
    /\ suppression_window = 1
    /\ pc = "call"
    /\ mode = "app"
    /\ arg = 1
    /\ df = 0
    /\ suppression_end = EmptyDict
    /\ processed_alerts = <<>>
    /\ idx = 0
    /\ ret = 0
    /\ only_key = NoKey
    /\ stats = EmptyDict
    /\ RulePageIdle
    /\ OtherPagesIdle

NextHash ==
    \/ SortAndHash
    \/ LoopIteration
    \/ Return
    \/ ReductionStatistics
    \/ Reapply

SpecHash == InitHash /\ [][NextHash]_vars

\* The function on frames that hold rows without a timestamp (pd.NaT), which
\* generate_alerts never builds but the function accepts.
RECURSIVE NaTFrames(_)
NaTFrames(n) ==
    IF n = 0 THEN {<<>>}
    ELSE {Append(f, AlertRow(n - 1, s, a, v, t)) :
            f \in NaTFrames(n - 1), s \in Services, a \in AlertTypes,
            v \in Severities, t \in {0, 1, NaT}}

InitNaT ==
    /\ \E n \in 1..MaxHashRows : \E f \in NaTFrames(n) :
          /\ \E i \in 1..n : f[i].timestamp = NaT
          /\ heap = <<f>>
    /\ session_state = [original_alerts |-> 1]
    /\ suppression_window \in 1..MaxWindow
    /\ pc = "call"
    /\ mode = "app"
    /\ arg = 1
    /\ df = 0
    /\ suppression_end = EmptyDict
    /\ processed_alerts = <<>>
    /\ idx = 0
    /\ ret = 0
    /\ only_key = NoKey
    /\ stats = EmptyDict
    /\ RulePageIdle
    /\ OtherPagesIdle

NextNaT ==
    \/ SortAndHash
    \/ LoopIteration
    \/ Return
    \/ ReductionStatistics

SpecNaT == InitNaT /\ [][NextNaT]_vars

\* The calls on permuted inputs, from the frames whose same-key events have
\* pairwise distinct timestamps, with the windows the slider offers.
InitPerm ==
    /\ Init
    /\ suppression_window >= 1
    /\ DistinctTimestampsPerKey(heap[1])

NextPerm ==
    \/ SortAndHash
    \/ LoopIteration
    \/ Return
    \/ ReductionStatistics
    \/ Permute

SpecPerm == InitPerm /\ [][NextPerm]_vars

\* ------------------------------------- correlation_rule_based.py: data
\* The services and hours of a run (two of the services and three of the
\* hours the sliders give), in the order of the generating loops.
rb_services == <<"Service_1", "Service_2">>
rb_hours == <<0, 1, 2>>
rb_alert_types == {"CPU Usage", "Memory Usage"}
rb_severities == {"Low", "High"}
rb_values == {80}
MinutesPerHour == 60

RuleAlert(t, s, a, v, x) ==
    [timestamp |-> t, service |-> s, alert_type |-> a, severity |-> v, value |-> x]

\* The (hour, service) pair the loops visit k-th.
SlotHour(k) == rb_hours[((k - 1) \div Len(rb_services)) + 1]
SlotService(k) == rb_services[((k - 1) % Len(rb_services)) + 1]

\* The frames the loops can build over the first k (hour, service) pairs
\* with at most n alerts: each pair gives no alert or one alert, stamped
\* start_time + hour (in minutes from start_time), in the loops' order.
RECURSIVE AlertDataFrames(_, _)
AlertDataFrames(k, n) ==
    IF k = 0 THEN {<<>>}
    ELSE AlertDataFrames(k - 1, n) \cup
         (IF n = 0 THEN {}
          ELSE {Append(f, RuleAlert(SlotHour(k) * MinutesPerHour, SlotService(k), a, v, x)) :
                  f \in AlertDataFrames(k - 1, n - 1), a \in rb_alert_types,
                  v \in rb_severities, x \in rb_values})

generate_alert_data ==
    AlertDataFrames(Len(rb_hours) * Len(rb_services), MaxRuleAlerts)

\* A rule as the form stores it.
new_rule(name, service, alert_type, severity, threshold, time_window) ==
    [name |-> name, service |-> service, alert_type |-> alert_type,
     severity |-> severity, threshold |-> threshold, time_window |-> time_window]

ColumnValues(frame, col) == {frame[i][col] : i \in 1..Len(frame)}

\* st.session_state.rules, or the empty list while the key is not set.
RulesOf(ss) == IF "rules" \in DOMAIN ss THEN ss.rules ELSE <<>>

\* ------------------------------- correlation_rule_based.py: the rule form
\* What the form is submitted with: the name typed (possibly none), the
\* service and alert type picked among 'Any' and those of the run's alerts,
\* two of the severity options, the default threshold and time window.
FormNames == {"", "A", "B"}
FormServices(frame) == {"Any"} \cup ColumnValues(frame, "service")
FormAlertTypes(frame) == {"Any"} \cup ColumnValues(frame, "alert_type")
FormSeverities == {"Any", "High"}
FormThresholds == {75}
FormTimeWindows == {15}

\* The alerts a run that handles a form or a button starts from: df is
\* generated anew on every run; one alert in the first hour.
RerunFrames ==
    {f \in generate_alert_data :
        Len(f) = 1 /\ f[1].timestamp = 0 /\ f[1].severity = "Low"}

\* Variant: the name is not looked at, every submission is stored.
rule_creation_unnamed(ss, rule) ==
    [session_state |-> [rules |-> Append(RulesOf(ss), rule)], message |-> "success"]

\* Lines 162-178: the submitted form.  With a name, the rule is appended to
\* st.session_state.rules (created empty when missing) and st.success shown;
\* without, st.error is shown.
rule_creation(ss, rule) ==
    IF rule.name # ""
    THEN [session_state |-> [rules |-> Append(RulesOf(ss), rule)],
          message |-> "success"]
    ELSE [session_state |-> ss, message |-> "error"]

\* rules.pop(i)
pop(rules, i) == [j \in 1..(Len(rules) - 1) |-> IF j < i THEN rules[j] ELSE rules[j + 1]]

\* A run in which the form "Create Rule" was submitted.
SubmitRule ==
    /\ rb_pc = "tabs"
    /\ rb_run < MaxRuns
    /\ \E name \in FormNames, service \in FormServices(rb_df),
          alert_type \in FormAlertTypes(rb_df), severity \in FormSeverities,
          threshold \in FormThresholds, time_window \in FormTimeWindows :
          LET rule == new_rule(name, service, alert_type, severity, threshold,
                               time_window)
              r == rule_creation(rb_session_state, rule) IN
          /\ rb_session_state' = r.session_state
          /\ rb_form' = [values |-> rule, message |-> r.message]
    /\ rb_df' \in RerunFrames
    /\ rb_run' = rb_run + 1
    /\ UNCHANGED <<rb_pc, rb_rule, rb_filtered_df, rb_correlated_alerts>>
    /\ UNCHANGED dedupvars
    /\ UNCHANGED pagevars

\* Lines 194-196: the button "Delete Rule i+1", and the rerun it asks for.
DeleteRule ==
    /\ rb_pc = "tabs"
    /\ rb_run < MaxRuns
    /\ \E i \in 1..Len(RulesOf(rb_session_state)) :
          rb_session_state' = [rules |-> pop(rb_session_state.rules, i)]
    /\ rb_form' = NoForm
    /\ rb_df' \in RerunFrames
    /\ rb_run' = rb_run + 1
    /\ UNCHANGED <<rb_pc, rb_rule, rb_filtered_df, rb_correlated_alerts>>
    /\ UNCHANGED dedupvars
    /\ UNCHANGED pagevars

\* The suppression page not opened.
SuppressionPageIdle ==
    /\ heap = <<>>
    /\ session_state = EmptyDict
    /\ suppression_window = 1
    /\ pc = "idle"
    /\ mode = "app"
    /\ arg = 0
    /\ df = 0
    /\ suppression_end = EmptyDict
    /\ processed_alerts = <<>>
    /\ idx = 0
    /\ ret = 0
    /\ only_key = NoKey
    /\ stats = EmptyDict

\* The rule page in a fresh session, its alerts generated.
InitRuleForm ==
    /\ SuppressionPageIdle
    /\ rb_pc = "tabs"
    /\ rb_df \in RerunFrames
    /\ rb_session_state = EmptyDict
    /\ rb_run = 0
    /\ rb_form = NoForm
    /\ rb_rule = NoRule
    /\ rb_filtered_df = <<>>
    /\ rb_correlated_alerts = <<>>
    /\ OtherPagesIdle

NextRuleForm ==
    \/ SubmitRule
    \/ DeleteRule

SpecRuleForm == InitRuleForm /\ [][NextRuleForm]_vars

\* ----------------------- correlation_rule_based.py: applying a rule (tab3)
\* The rules applied: a stored rule with a service and an alert type or
\* 'Any', each severity option, a threshold below and one above the alerts'
\* values, the default and the largest time window.
ApplyRules ==
    {new_rule("A", s, a, v, x, w) :
        s \in {"Any", "Service_1"}, a \in {"Any", "CPU Usage"},
        v \in {"Any", "Low", "Medium", "High"}, x \in {75, 90}, w \in {15, 60}}

\* next(rule for rule in rules if rule['name'] == selected_rule)
SelectedRule(rules, name) ==
    rules[CHOOSE i \in 1..Len(rules) :
              /\ rules[i].name = name
              /\ \A j \in 1..(i - 1) : rules[j].name # name]

\* Lines 221-222
FilterByService(frame, rule) ==
    IF rule.service # "Any"
    THEN SelectSeq(frame, LAMBDA r : r.service = rule.service)
    ELSE frame

\* Lines 223-224
FilterByAlertType(frame, rule) ==
    IF rule.alert_type # "Any"
    THEN SelectSeq(frame, LAMBDA r : r.alert_type = rule.alert_type)
    ELSE frame

\* Lines 225-226: the severity is compared for equality.
FilterBySeverity(frame, rule) ==
    IF rule.severity # "Any"
    THEN SelectSeq(frame, LAMBDA r : r.severity = rule.severity)
    ELSE frame

\* Line 227
FilterByThreshold(frame, rule) ==
    SelectSeq(frame, LAMBDA r : r.value >= rule.threshold)

\* Lines 220-227: filtered_df
ApplyCriteria(frame, rule) ==
    FilterByThreshold(
        FilterBySeverity(
            FilterByAlertType(FilterByService(frame, rule), rule), rule), rule)

\* group.sort_values('timestamp'): the rows of one service, whose timestamps
\* all differ (one alert per hour and service).
rb_sort_values(group) ==
    CHOOSE o \in {[i \in 1..Len(group) |-> group[p[i]]] :
                     p \in Permutations(1..Len(group))} :
        \A i, j \in 1..Len(o) : i < j => o[i].timestamp <= o[j].timestamp

\* Variant: the window taken on both sides of the alert.
CorrelatedAround(group, alert, time_window) ==
    SelectSeq(group, LAMBDA r : /\ r.timestamp >= alert.timestamp - time_window
                                /\ r.timestamp <= alert.timestamp + time_window)

\* Lines 234-236: the rows of the group from the alert to its window's end.
Correlated(group, alert, time_window) ==
    SelectSeq(group, LAMBDA r : /\ r.timestamp >= alert.timestamp
                                /\ r.timestamp <= alert.timestamp + time_window)

\* Lines 233-238 for one group: one candidate per alert, kept when it holds
\* more than one row.
GroupCorrelations(group, time_window) ==
    SelectSeq([i \in 1..Len(group) |-> Correlated(group, group[i], time_window)],
              LAMBDA c : Len(c) > 1)

\* Lines 230-238: the groups of filtered_df.groupby('service'), in the order
\* of the service names, over the first k services.
RECURSIVE CorrelateServices(_, _, _)
CorrelateServices(frame, time_window, k) ==
    IF k = 0 THEN <<>>
    ELSE CorrelateServices(frame, time_window, k - 1) \o
         GroupCorrelations(
             rb_sort_values(SelectSeq(frame, LAMBDA r : r.service = rb_services[k])),
             time_window)

\* Line 66: the alerts of this run.
GenerateAlertData ==
    /\ rb_pc = "start"
    /\ rb_df' \in generate_alert_data
    /\ rb_pc' = "tabs"
    /\ UNCHANGED <<rb_session_state, rb_run, rb_form, rb_rule, rb_filtered_df,
                   rb_correlated_alerts>>
    /\ UNCHANGED dedupvars
    /\ UNCHANGED pagevars

\* Lines 213-238: a stored rule is selected and applied.  A run that drew
\* no alert has a frame without columns, and reading a column raises.
ApplyRule ==
    /\ rb_pc = "tabs"
    /\ RulesOf(rb_session_state) # <<>>
    /\ \E selected_rule \in ColumnValues(rb_session_state.rules, "name") :
          LET rule == SelectedRule(rb_session_state.rules, selected_rule)
              filtered_df == ApplyCriteria(rb_df, rule) IN
          IF rb_df = <<>>
          THEN /\ rb_pc' = "raised"
               /\ UNCHANGED <<rb_rule, rb_filtered_df, rb_correlated_alerts>>
          ELSE /\ rb_pc' = "shown"
               /\ rb_rule' = rule
               /\ rb_filtered_df' = filtered_df
               /\ rb_correlated_alerts' =
                     CorrelateServices(filtered_df, rule.time_window,
                                       Len(rb_services))
    /\ UNCHANGED <<rb_df, rb_session_state, rb_run, rb_form>>
    /\ UNCHANGED dedupvars
    /\ UNCHANGED pagevars

\* A run of the page with one rule stored.
InitRuleApply ==
    /\ SuppressionPageIdle
    /\ rb_pc = "start"
    /\ rb_df = <<>>
    /\ \E rule \in ApplyRules : rb_session_state = [rules |-> <<rule>>]
    /\ rb_run = 0
    /\ rb_form = NoForm
    /\ rb_rule = NoRule
    /\ rb_filtered_df = <<>>
    /\ rb_correlated_alerts = <<>>
    /\ OtherPagesIdle

NextRuleApply ==
    \/ GenerateAlertData
    \/ ApplyRule

SpecRuleApply == InitRuleApply /\ [][NextRuleApply]_vars

\* ------------------------------ correlation_topology_based.py: the path
\* The nodes of G are 0 .. n-1; of the trees nx.random_tree can return the
\* model takes the chain 0 - 1 - ... - (n-1).  Two hours are simulated.
tp_nodes == 0..(MaxNodes - 1)
tp_hours == <<0, 1>>

TopologyAlert(t, n) == [timestamp |-> t, node |-> n, severity |-> "Low"]

\* The frames the loops over the hours and the nodes can build over the
\* first k (hour, node) pairs: each pair gives no alert or one alert, stamped
\* start_time + hour (in minutes from start_time).
RECURSIVE TopologyFrames(_)
TopologyFrames(k) ==
    IF k = 0 THEN {<<>>}
    ELSE LET hour == tp_hours[((k - 1) \div MaxNodes) + 1]
             node == (k - 1) % MaxNodes
             shorter == TopologyFrames(k - 1)
         IN  shorter \cup
             {Append(f, TopologyAlert(hour * MinutesPerHour, node)) :
                 f \in shorter}

\* generate_alert_data(G, start_time, hours), start_time being minute 0.
tp_generate_alert_data(hours) == TopologyFrames(Len(hours) * MaxNodes)

\* nx.shortest_path(G, source, target) on the chain.
shortest_path(source, target) ==
    IF source <= target
    THEN [i \in 1..(target - source + 1) |-> source + i - 1]
    ELSE [i \in 1..(source - target + 1) |-> source - i + 1]

\* df[df['node'].isin(path)].sort_values('timestamp')['timestamp']: the rows
\* of df are in the order of their hours, so are the rows selected.
PathTimestamps(frame, path) ==
    LET on_path == SelectSeq(frame, LAMBDA r : \E i \in 1..Len(path) : path[i] = r.node)
    IN  [i \in 1..Len(on_path) |-> on_path[i].timestamp]

\* path_alerts['timestamp'].diff().dropna()
diff_dropna(ts) == [i \in 1..(Len(ts) - 1) |-> ts[i + 1] - ts[i]]

RECURSIVE SumSeq(_)
SumSeq(q) == IF q = <<>> THEN 0 ELSE Head(q) + SumSeq(Tail(q))

\* time_diffs.mean().total_seconds() / 60: the mean in minutes, kept as the
\* fraction num / den.
mean_minutes(time_diffs) == [num |-> SumSeq(time_diffs), den |-> Len(time_diffs)]

\* Lines 257-262: avg_time_diff <= 5, <= 15, else.
CorrelationMessage(avg) ==
    IF avg.num <= 5 * avg.den THEN "Potential cascading failure detected!"
    ELSE IF avg.num <= 15 * avg.den THEN "Moderate correlation between alerts on path."
    ELSE "Low correlation between alerts on path."

\* Lines 213-264: "Analyze Path" pressed with the first node as source and
\* any other node as target.  A run that drew no alert has a frame without
\* columns, and reading the column 'node' raises.
AnalyzePath ==
    /\ tp.pc = "tabs"
    /\ \E target_node \in tp_nodes \ {0} :
          LET path == shortest_path(0, target_node)
              ts == PathTimestamps(tp.df, path)
              avg == mean_minutes(diff_dropna(ts)) IN
          IF tp.df = <<>>
          THEN tp' = [tp EXCEPT !.pc = "raised"]
          ELSE tp' = [pc |-> "shown", df |-> tp.df, path |-> path,
                      path_timestamps |-> ts,
                      avg_time_diff |-> IF Len(ts) > 1 THEN avg ELSE <<>>,
                      message |-> IF Len(ts) > 1 THEN CorrelationMessage(avg)
                                  ELSE "Not enough alerts on path for correlation analysis."]
    /\ UNCHANGED <<dedupvars, rbvars, pr, rca, quiz>>

\* A run of the topology page: G and df generated.
InitTopology ==
    /\ SuppressionPageIdle
    /\ RulePageIdle
    /\ tp \in {[pc |-> "tabs", df |-> f] : f \in tp_generate_alert_data(tp_hours)}
    /\ pr = PageIdle
    /\ rca = PageIdle
    /\ quiz = PageIdle

NextTopology ==
    \/ AnalyzePath

SpecTopology == InitTopology /\ [][NextTopology]_vars

\* --------------------- correlation_alert_prioritization.py: the scores
pr_services == {"Service_0", "Service_1"}
pr_severities == {"Low", "Medium", "High", "Critical"}
severity_order == <<"Critical", "High", "Medium", "Low">>

\* The frames generate_alerts can return with n rows; of the columns the
\* service and the severity, which the scores are computed from.
RECURSIVE PriorityFrames(_)
PriorityFrames(n) ==
    IF n = 0 THEN {<<>>}
    ELSE {Append(f, [alert_id |-> n - 1, service |-> s, severity |-> v]) :
            f \in PriorityFrames(n - 1), s \in pr_services, v \in pr_severities}

\* NaN, the value of a missing cell: apart from every count and score.
NaN == -(1)
nan_times(a, k) == IF a = NaN THEN NaN ELSE a * k
nan_plus(a, b) == IF a = NaN \/ b = NaN THEN NaN ELSE a + b

\* df.groupby(['service', 'severity']).size().unstack(fill_value=0): a row
\* per service and a column per severity that occur in df, holding the number
\* of alerts (0 where the pair does not occur).
groupby_size_unstack(frame) ==
    [s \in ColumnValues(frame, "service") |->
        [v \in ColumnValues(frame, "severity") |->
            Cardinality({i \in 1..Len(frame) :
                            frame[i].service = s /\ frame[i].severity = v})]]

\* data.reindex(columns=...): the columns named, those missing in data
\* filled with NaN.
reindex_columns(data, columns) ==
    [s \in DOMAIN data |->
        [c \in {columns[i] : i \in 1..Len(columns)} |->
            IF c \in DOMAIN data[s] THEN data[s][c] ELSE NaN]]

\* Lines 150-154
create_heatmap_data(frame) ==
    reindex_columns(groupby_size_unstack(frame), severity_order)

\* Lines 180-183
priority_score(heatmap_data) ==
    [s \in DOMAIN heatmap_data |->
        nan_plus(nan_plus(nan_plus(nan_times(heatmap_data[s]["Critical"], 4),
                                   nan_times(heatmap_data[s]["High"], 3)),
                          nan_times(heatmap_data[s]["Medium"], 2)),
                 nan_times(heatmap_data[s]["Low"], 1))]

\* The orders priority_score.sort_values(ascending=False) can give: the
\* scores descending, NaN last, equal scores in any order (the default sort
\* is not stable).
SortedDescending(score) ==
    {o \in [1..Cardinality(DOMAIN score) -> DOMAIN score] :
        /\ \A i, j \in DOMAIN o : i # j => o[i] # o[j]
        /\ \A i, j \in DOMAIN o :
              i < j => \/ score[o[j]] = NaN
                       \/ score[o[i]] # NaN /\ score[o[i]] >= score[o[j]]}

\* Lines 146-187: the heatmap data, the scores and the list shown.
Prioritize ==
    /\ pr.pc = "tabs"
    /\ LET heatmap_data == create_heatmap_data(pr.alerts)
           score == priority_score(heatmap_data) IN
       \E o \in SortedDescending(score) :
          pr' = [pc |-> "shown", alerts |-> pr.alerts,
                 heatmap_data |-> heatmap_data,
                 priority_services |->
                     [i \in DOMAIN o |-> [service |-> o[i], score |-> score[o[i]]]]]
    /\ UNCHANGED <<dedupvars, rbvars, tp, rca, quiz>>

\* "Run Simulation" pressed: st.session_state['alerts'] holds the alerts.
InitPriority ==
    /\ SuppressionPageIdle
    /\ RulePageIdle
    /\ tp = PageIdle
    /\ \E n \in 1..MaxPriorityAlerts : \E f \in PriorityFrames(n) :
          pr = [pc |-> "tabs", alerts |-> f]
    /\ rca = PageIdle
    /\ quiz = PageIdle

NextPriority ==
    \/ Prioritize

SpecPriority == InitPriority /\ [][NextPriority]_vars

\* ------------------------------- correlation_rca_based.py: perform_rca
rca_services == {"Service_0", "Service_1"}
Noise == 0 - 1
ClusterLabels == {Noise, 0, 1}
min_samples == 3

\* The frames with n rows perform_rca is called on: alert_id is the row's
\* position, the service is drawn, the cluster is the label DBSCAN gave.
RECURSIVE CorrelatedFrames(_)
CorrelatedFrames(n) ==
    IF n = 0 THEN {<<>>}
    ELSE {Append(f, [alert_id |-> n - 1, service |-> s, cluster |-> c]) :
            f \in CorrelatedFrames(n - 1), s \in rca_services, c \in ClusterLabels}

ClusterMembers(frame, c) == {i \in 1..Len(frame) : frame[i].cluster = c}

\* The labelings DBSCAN(min_samples=3).fit_predict can give: the clusters
\* are numbered from 0 in the order found, and the first one found holds a
\* core point with all its neighbours, at least min_samples points.
DBSCANLabeling(frame) ==
    /\ ClusterMembers(frame, 1) # {} => ClusterMembers(frame, 0) # {}
    /\ ClusterMembers(frame, 0) # {} =>
          Cardinality(ClusterMembers(frame, 0)) >= min_samples

\* df[df['cluster'] == cluster]['alert_id'].tolist()
cluster_alerts(frame, c) ==
    LET rows == SelectSeq(frame, LAMBDA r : r.cluster = c)
    IN  [i \in 1..Len(rows) |-> rows[i].alert_id]

\* Variant: the noise label is connected like a cluster.
ClusterEdgesWithNoise(frame) ==
    UNION {LET ids == cluster_alerts(frame, c) IN
           {{ids[i], ids[j]} : i \in 1..Len(ids), j \in 1..Len(ids)} \ {{ids[i]} : i \in 1..Len(ids)}
           : c \in ColumnValues(frame, "cluster")}

\* Lines 193-199: for each cluster but -1, an edge for every pair i < j of
\* its alerts.
ClusterEdges(frame) ==
    UNION {LET ids == cluster_alerts(frame, c) IN
           UNION {{{ids[i], ids[j]} : j \in (i + 1)..Len(ids)} : i \in 1..Len(ids)}
           : c \in ColumnValues(frame, "cluster") \ {Noise}}

Degree(G, v) == Cardinality({e \in G.edges : v \in e})

\* nx.degree_centrality(G): the degree over n - 1, as the fraction num / den;
\* 1 for every node of a graph with at most one node.
degree_centrality(G) ==
    [v \in {G.nodes[i] : i \in 1..Len(G.nodes)} |->
        IF Len(G.nodes) <= 1 THEN [num |-> 1, den |-> 1]
        ELSE [num |-> Degree(G, v), den |-> Len(G.nodes) - 1]]

\* max(centrality, key=centrality.get): the first node, in the order the
\* nodes were added, whose centrality no node exceeds.
max_by_centrality(G, centrality) ==
    G.nodes[CHOOSE i \in 1..Len(G.nodes) :
                /\ \A j \in 1..Len(G.nodes) :
                      centrality[G.nodes[j]].num * centrality[G.nodes[i]].den
                          <= centrality[G.nodes[i]].num * centrality[G.nodes[j]].den
                /\ \A j \in 1..(i - 1) :
                      centrality[G.nodes[j]].num * centrality[G.nodes[i]].den
                          < centrality[G.nodes[i]].num * centrality[G.nodes[j]].den]

\* Lines 186-206: perform_rca.
perform_rca(frame) ==
    LET G == [nodes |-> [i \in 1..Len(frame) |-> frame[i].alert_id],
              service |-> [v \in {frame[i].alert_id : i \in 1..Len(frame)} |->
                              frame[CHOOSE i \in 1..Len(frame) :
                                        /\ frame[i].alert_id = v
                                        /\ \A j \in (i + 1)..Len(frame) :
                                              frame[j].alert_id # v].service],
              edges |-> ClusterEdges(frame)]
        most_central_alert == max_by_centrality(G, degree_centrality(G))
    IN  [G |-> G,
         most_central_alert |-> most_central_alert,
         predicted_root_cause |-> G.service[most_central_alert]]

\* Lines 181-211: tab2 with the correlated alerts of the session.
RootCauseAnalysis ==
    /\ rca.pc = "tabs"
    /\ LET r == perform_rca(rca.correlated_alerts) IN
       rca' = [pc |-> "shown", correlated_alerts |-> rca.correlated_alerts,
               G |-> r.G, most_central_alert |-> r.most_central_alert,
               predicted_root_cause |-> r.predicted_root_cause]
    /\ UNCHANGED <<dedupvars, rbvars, tp, pr, quiz>>

\* "Run Simulation" pressed: st.session_state['correlated_alerts'] set.
InitRca ==
    /\ SuppressionPageIdle
    /\ RulePageIdle
    /\ tp = PageIdle
    /\ pr = PageIdle
    /\ \E n \in 1..MaxRcaAlerts : \E f \in CorrelatedFrames(n) :
          /\ DBSCANLabeling(f)
          /\ rca = [pc |-> "tabs", correlated_alerts |-> f]
    /\ quiz = PageIdle

NextRca ==
    \/ RootCauseAnalysis

SpecRca == InitRca /\ [][NextRca]_vars

\* ---------------- the scored quiz (rule-based, time-based, topology pages)
\* The quiz of each of the three pages: five questions of four options; the
\* pages differ in the index of the correct option of each question.
QuizApps == {"rule_based", "time_based", "topology_based"}
correct(app) ==
    CASE app = "rule_based" -> <<1, 3, 1, 1, 2>>
      [] app = "time_based" -> <<1, 0, 2, 1, 2>>
      [] app = "topology_based" -> <<1, 1, 1, 1, 2>>
\* len(questions), the same in the three pages.
NumQuestions == Len(correct("rule_based"))
OptionIndexes == 0..3

\* f'q{i}_answered', and the labels of the buttons.
answered_key(i) == "q" \o ToString(i) \o "_answered"
SubmitButton(i) == "Submit Answer for Question " \o ToString(i + 1)
RetakeButton == "Retake Quiz"
NoButton == "none"

\* if 'quiz_score' not in st.session_state: both counters are set to 0.
init_quiz_scores(ss) ==
    IF "quiz_score" \in DOMAIN ss THEN ss
    ELSE ("quiz_score" :> 0) @@ ("questions_answered" :> 0) @@ ss

\* if f'q{i}_answered' not in st.session_state: the flag is set to False.
init_answered(ss, i) ==
    IF answered_key(i) \in DOMAIN ss THEN ss ELSE (answered_key(i) :> FALSE) @@ ss

\* Variant: the question's controls are shown whatever its flag.
question_open_always(ss, i) == TRUE

\* if not st.session_state[f'q{i}_answered']
question_open(ss, i) == ~ss[answered_key(i)]

\* Variant: the answer is scored but not counted as answered.
submit_answer_uncounted(ss, i, answer, app) ==
    [ss EXCEPT ![answered_key(i)] = TRUE,
               !["quiz_score"] = IF answer = correct(app)[i + 1] THEN @ + 1 ELSE @]

\* The body of "if st.button(Submit ...)": the flag, the count of answered
\* questions and, for the correct option, the score.
submit_answer(ss, i, answer, app) ==
    [ss EXCEPT ![answered_key(i)] = TRUE,
               !["questions_answered"] = @ + 1,
               !["quiz_score"] = IF answer = correct(app)[i + 1] THEN @ + 1 ELSE @]

\* The loop over the questions from question i on, on st = [session_state,
\* buttons]: buttons collects the buttons this run shows, clicked is the one
\* button whose press started the run (or none).
RECURSIVE quiz_loop(_, _, _, _, _)
quiz_loop(st, i, clicked, answer, app) ==
    IF i = NumQuestions THEN st
    ELSE LET ss == init_answered(st.session_state, i) IN
         quiz_loop(
             IF question_open(ss, i)
             THEN [session_state |->
                       IF clicked = SubmitButton(i)
                       THEN submit_answer(ss, i, answer, app) ELSE ss,
                   buttons |-> st.buttons \cup {SubmitButton(i)}]
             ELSE [session_state |-> ss, buttons |-> st.buttons],
             i + 1, clicked, answer, app)

\* Variant: the flags are left as they are.
retake_keeps_flags(ss) ==
    [ss EXCEPT !["quiz_score"] = 0, !["questions_answered"] = 0]

\* The body of "if st.button('Retake Quiz')" before the rerun.
retake(ss) ==
    [k \in DOMAIN ss |->
        IF k \in {answered_key(i) : i \in 0..(NumQuestions - 1)} THEN FALSE
        ELSE IF k \in {"quiz_score", "questions_answered"} THEN 0
        ELSE ss[k]]

\* One run of the quiz tab.  With "Retake Quiz" pressed the run ends in
\* st.experimental_rerun(), a further run in which no button is pressed.
RECURSIVE quiz_run(_, _, _, _)
quiz_run(ss, clicked, answer, app) ==
    LET st == quiz_loop([session_state |-> init_quiz_scores(ss), buttons |-> {}],
                        0, clicked, answer, app) IN
    IF st.session_state["questions_answered"] = NumQuestions
    THEN IF clicked = RetakeButton
         THEN quiz_run(retake(st.session_state), NoButton, answer, app)
         ELSE [session_state |-> st.session_state,
               buttons |-> st.buttons \cup {RetakeButton}]
    ELSE st

QuizPage(app, r, clicked) ==
    [pc |-> "page", app |-> app, session_state |-> r.session_state,
     buttons |-> r.buttons, clicked |-> clicked]

\* A run no button started: the page is opened, or another widget changed.
Rerun ==
    /\ quiz.pc \in {"start", "page"}
    /\ quiz' = QuizPage(quiz.app,
                        quiz_run(quiz.session_state, NoButton, 0, quiz.app),
                        NoButton)
    /\ UNCHANGED <<dedupvars, rbvars, tp, pr, rca>>

\* A "Submit Answer" button of the page is pressed, an option being selected.
SubmitAnswer ==
    /\ quiz.pc = "page"
    /\ \E i \in 0..(NumQuestions - 1), answer \in OptionIndexes :
          /\ SubmitButton(i) \in quiz.buttons
          /\ quiz' = QuizPage(quiz.app,
                              quiz_run(quiz.session_state, SubmitButton(i),
                                       answer, quiz.app),
                              SubmitButton(i))
    /\ UNCHANGED <<dedupvars, rbvars, tp, pr, rca>>

\* The "Retake Quiz" button of the page is pressed.
RetakeQuiz ==
    /\ quiz.pc = "page"
    /\ RetakeButton \in quiz.buttons
    /\ quiz' = QuizPage(quiz.app,
                        quiz_run(quiz.session_state, RetakeButton, 0, quiz.app),
                        RetakeButton)
    /\ UNCHANGED <<dedupvars, rbvars, tp, pr, rca>>

\* A fresh session of one of the three pages.
InitQuiz ==
    /\ SuppressionPageIdle
    /\ RulePageIdle
    /\ tp = PageIdle
    /\ pr = PageIdle
    /\ rca = PageIdle
    /\ \E app \in QuizApps :
          quiz = [pc |-> "start", app |-> app, session_state |-> EmptyDict,
                  buttons |-> {}, clicked |-> NoButton]

NextQuiz ==
    \/ Rerun
    \/ SubmitAnswer
    \/ RetakeQuiz

SpecQuiz == InitQuiz /\ [][NextQuiz]_vars

\* ------------------------------------------------- what the claims speak of
\* The frame the page passed (session_state['original_alerts']), the frame
\* the current call was given and the frame it returned.
OriginalAlerts == heap[session_state.original_alerts]
ArgFrame == heap[arg]
Returned == heap[ret]
\* The window as a duration.
WindowTicks == suppression_window * TicksPerMinute

IdsOf(frame) == [i \in 1..Len(frame) |-> frame[i].alert_id]
IdSetOf(frame) == {frame[i].alert_id : i \in 1..Len(frame)}

\* The row without the alert_hash column.
Strip(row) == AlertRow(row.alert_id, row.service, row.alert_type, row.severity,
                       row.timestamp)
StripFrame(frame) == [i \in 1..Len(frame) |-> Strip(frame[i])]

\* s is a subsequence of t: the elements of s occur in t, in s's order.
RECURSIVE IsSubseq(_, _)
IsSubseq(s, t) ==
    IF s = <<>> THEN TRUE
    ELSE IF t = <<>> THEN FALSE
    ELSE IF Head(s) = Head(t) THEN IsSubseq(Tail(s), Tail(t))
    ELSE IsSubseq(s, Tail(t))

AppDone == pc = "done" /\ mode = "app"

\* ----------------------------------------------------------------- C1
\* C1: in the pass over the rows in ascending timestamp order, a row is
\* suppressed exactly when its grouping key has an entry in the expiry
\* dictionary and its timestamp is at most that entry (then the list and the
\* dictionary stay as they are); every other row is appended to the output
\* and sets its key's entry to its timestamp plus the window.
C1_SuppressedExactlyWhenInsideWindow ==
    [][(pc = "loop" /\ idx <= Len(heap[df])) =>
        LET alert == heap[df][idx]
            k == alert_hash_of(alert)
            hit == /\ k \in DOMAIN suppression_end
                   /\ alert.timestamp <= suppression_end[k]
        IN  /\ IsSortedByTimestamp(heap[df])
            /\ idx' = idx + 1
            /\ IF hit
               THEN /\ processed_alerts' = processed_alerts
                    /\ suppression_end' = suppression_end
               ELSE /\ processed_alerts' = Append(processed_alerts, alert)
                    /\ DOMAIN suppression_end' = DOMAIN suppression_end \cup {k}
                    /\ suppression_end'[k] = alert.timestamp + WindowTicks
                    /\ \A x \in DOMAIN suppression_end \ {k} :
                          suppression_end'[x] = suppression_end[x]
      ]_vars

\* A finished pass that suppressed a row and kept two rows of one key.
C1_Witness ==
    /\ AppDone
    /\ Len(Returned) < Len(OriginalAlerts)
    /\ \E i, j \in 1..Len(Returned) :
          i < j /\ Returned[i].alert_hash = Returned[j].alert_hash

\* ----------------------------------------------------------------- C2
\* C2: for exactly two events of one grouping key at t0 <= t1 and a window
\* w > 0, the event at t0 survives and the other one survives if and only if
\* t1 > t0 + w; at t1 = t0 + w it is suppressed.
C2_SecondSurvivesIffBeyondWindow ==
    (AppDone /\ Len(OriginalAlerts) = 2 /\ suppression_window > 0
       /\ alert_hash_of(OriginalAlerts[1]) = alert_hash_of(OriginalAlerts[2])) =>
    \E first, second \in 1..2 :
        /\ first # second
        /\ OriginalAlerts[first].timestamp <= OriginalAlerts[second].timestamp
        /\ OriginalAlerts[first].alert_id \in IdSetOf(Returned)
        /\ (OriginalAlerts[second].alert_id \in IdSetOf(Returned)) <=>
              (OriginalAlerts[second].timestamp >
                  OriginalAlerts[first].timestamp + WindowTicks)

\* Two events of one key, the later exactly at the end of the window of the
\* earlier one, and only the earlier one returned.
C2_Witness ==
    /\ AppDone
    /\ Len(OriginalAlerts) = 2
    /\ suppression_window > 0
    /\ alert_hash_of(OriginalAlerts[1]) = alert_hash_of(OriginalAlerts[2])
    /\ OriginalAlerts[2].timestamp = OriginalAlerts[1].timestamp + WindowTicks
    /\ IdsOf(Returned) = <<OriginalAlerts[1].alert_id>>

\* ----------------------------------------------------------------- C3
\* C3: idempotence: the function applied to its own output with the same
\* window returns that output unchanged, the same events in the same order
\* (stated here for the windows of the contract, w > 0).
C3_Idempotent ==
    (pc = "done" /\ mode = "reapply" /\ suppression_window > 0) =>
        Returned = heap[session_state.processed_alerts]

C5_NoOpAtNonPositiveWindow ==
    (AppDone /\ suppression_window <= 0 /\ IsSortedByTimestamp(OriginalAlerts)) =>
        /\ Len(Returned) = Len(OriginalAlerts)
        /\ {Strip(Returned[i]) : i \in 1..Len(Returned)} =
              {OriginalAlerts[i] : i \in 1..Len(OriginalAlerts)}

\* ----------------------------------------------------------------- C6
\* C6: monotonic reduction: with a window w > 0 the function returns at most
\* as many events as it was given.
C6_MonotonicReduction ==
    (pc = "done" /\ suppression_window > 0) => Len(Returned) <= Len(ArgFrame)

\* A call with a positive window that was given three events and returned one.
C6_Witness ==
    /\ pc = "done"
    /\ suppression_window > 0
    /\ Len(ArgFrame) = 3
    /\ Len(Returned) = 1

\* ----------------------------------------------------------------- C7
\* C7: for an input sorted ascending by timestamp the output is a
\* subsequence of the input: every output event is an input event, none
\* appears twice, and the survivors keep the input's relative order (stated
\* here for the windows of the contract, w > 0).
C7_OutputIsSubsequence ==
    (AppDone /\ suppression_window > 0 /\ IsSortedByTimestamp(OriginalAlerts)) =>
        IsSubseq(IdsOf(Returned), IdsOf(OriginalAlerts))

\* ----------------------------------------------------------------- C8
\* C8: the function does not mutate its input: the caller's frame
\* (session_state['original_alerts']) holds the same events, with the same
\* fields and in the same order, before and after every step of the call;
\* the sort and the hash column touch a private copy only.
C8_InputNotMutated ==
    [][heap'[session_state'.original_alerts] = heap[session_state.original_alerts]]_vars

\* A finished call whose private copy was reordered by the sort and carries
\* the hash column.
C8_Witness ==
    /\ AppDone
    /\ df # session_state.original_alerts
    /\ IdsOf(heap[df]) # IdsOf(OriginalAlerts)
    /\ \A i \in 1..Len(heap[df]) : "alert_hash" \in DOMAIN heap[df][i]

\* ----------------------------------------------------------------- C9
\* C9: tie-break by input order: among events of one grouping key at one
\* timestamp the one that comes first in the input survives and the later
\* ones are suppressed (the sort keeps equal timestamps in input order).
C9_FirstOfTieSurvives ==
    (AppDone /\ suppression_window > 0) =>
        \A i, j \in 1..Len(OriginalAlerts) :
            (/\ i < j
             /\ alert_hash_of(OriginalAlerts[i]) = alert_hash_of(OriginalAlerts[j])
             /\ OriginalAlerts[i].timestamp = OriginalAlerts[j].timestamp)
            => OriginalAlerts[j].alert_id \notin IdSetOf(Returned)

\* ----------------------------------------------------------------- C10
\* C10: a suppressed event never changes the suppression state: all through
\* the pass the expiry of a key is the timestamp of the most recent surviving
\* event of that key plus the window.
C10_ExpiryAnchoredAtLastSurvivor ==
    (pc \in {"loop", "done"}) =>
        \A k \in DOMAIN suppression_end :
            LET S == {i \in 1..Len(processed_alerts) :
                         processed_alerts[i].alert_hash = k}
            IN  /\ S # {}
                /\ \E last \in S :
                      /\ \A i \in S : i <= last
                      /\ suppression_end[k] =
                            processed_alerts[last].timestamp + WindowTicks

\* Three events of one key, the second inside the window of the first, the
\* third inside the window of the second but past the window of the first:
\* the first and the third are returned.
C10_Witness ==
    /\ AppDone
    /\ Len(OriginalAlerts) = 3
    /\ suppression_window > 0
    /\ \A i \in 1..3 : alert_hash_of(OriginalAlerts[i]) = alert_hash_of(OriginalAlerts[1])
    /\ OriginalAlerts[1].timestamp < OriginalAlerts[2].timestamp
    /\ OriginalAlerts[2].timestamp < OriginalAlerts[1].timestamp + WindowTicks
    /\ OriginalAlerts[3].timestamp > OriginalAlerts[1].timestamp + WindowTicks
    /\ OriginalAlerts[3].timestamp <= OriginalAlerts[2].timestamp + WindowTicks
    /\ IdsOf(Returned) = <<OriginalAlerts[1].alert_id, OriginalAlerts[3].alert_id>>

\* ----------------------------------------------------------------- C11
\* C11: the suppression step called with an empty event sequence returns an
\* empty output and raises no error, neither in the pass nor in the
\* reduction statistics computed from it.
C11_EmptyInputNoError ==
    (mode = "app" /\ OriginalAlerts = <<>>) =>
        /\ pc # "raised"
        /\ pc = "done" => Returned = <<>>

\* ----------------------------------------------------------------- C16
\* C16: every dropped event is accounted for: in the displayed figures
\* original_count - processed_count is the number of input events that the
\* pass did not return.
C16_DroppedEventsAccounted ==
    (AppDone /\ stats # EmptyDict) =>
        /\ stats.original_count = Len(OriginalAlerts)
        /\ stats.original_count - stats.processed_count =
              Cardinality(IdSetOf(OriginalAlerts) \ IdSetOf(Returned))

\* Displayed figures of a pass that dropped two of three events.
C16_Witness ==
    /\ AppDone
    /\ stats # EmptyDict
    /\ stats.original_count = 3
    /\ stats.processed_count = 1
    /\ Cardinality(IdSetOf(OriginalAlerts) \ IdSetOf(Returned)) = 2

\* ----------------------------------------------------------------- C12
\* C12: cold start: for every grouping key of the input its earliest event
\* survives, whatever the window and the other keys; so the keys of the
\* output are the keys of the input, and a key with a single event is never
\* suppressed.
KeysOf(frame) == {alert_hash_of(frame[i]) : i \in 1..Len(frame)}

C12_EarliestOfEachKeySurvives ==
    AppDone =>
        /\ KeysOf(Returned) = KeysOf(OriginalAlerts)
        /\ \A i \in 1..Len(OriginalAlerts) :
              LET others == {j \in 1..Len(OriginalAlerts) :
                               /\ j # i
                               /\ alert_hash_of(OriginalAlerts[j]) =
                                     alert_hash_of(OriginalAlerts[i])}
              IN  /\ (\A j \in others :
                        OriginalAlerts[i].timestamp < OriginalAlerts[j].timestamp)
                        => OriginalAlerts[i].alert_id \in IdSetOf(Returned)
                  /\ (\A j \in others :
                        OriginalAlerts[i].timestamp <= OriginalAlerts[j].timestamp)
                        => \E r \in 1..Len(Returned) :
                              /\ Returned[r].alert_hash = alert_hash_of(OriginalAlerts[i])
                              /\ Returned[r].timestamp = OriginalAlerts[i].timestamp

\* A key seen for the first time inside the running window of another key:
\* its event is returned, while a second event of the first key is dropped.
C12_Witness ==
    /\ AppDone
    /\ suppression_window > 0
    /\ Len(OriginalAlerts) = 3
    /\ alert_hash_of(OriginalAlerts[1]) = alert_hash_of(OriginalAlerts[3])
    /\ alert_hash_of(OriginalAlerts[1]) # alert_hash_of(OriginalAlerts[2])
    /\ OriginalAlerts[1].timestamp < OriginalAlerts[2].timestamp
    /\ OriginalAlerts[2].timestamp < OriginalAlerts[3].timestamp
    /\ OriginalAlerts[3].timestamp <= OriginalAlerts[1].timestamp + WindowTicks
    /\ IdsOf(Returned) = <<OriginalAlerts[1].alert_id, OriginalAlerts[2].alert_id>>

\* ----------------------------------------------------------------- C14
\* C14: the expiry dictionary is empty at the start of every invocation, an
\* entry is inserted or overwritten only in a step in which an event of that
\* key survives, no entry is removed during the pass, and after every step
\* the dictionary's keys are the keys of the survivors emitted so far.
C14_ExpiryMapLifecycle ==
    [][/\ (pc = "call" /\ pc' = "loop") => suppression_end' = EmptyDict
       /\ (pc = "loop" /\ pc' = "loop") =>
            /\ DOMAIN suppression_end \subseteq DOMAIN suppression_end'
            /\ \A k \in DOMAIN suppression_end' :
                  (k \notin DOMAIN suppression_end \/ suppression_end'[k] # suppression_end[k])
                  => /\ processed_alerts' = Append(processed_alerts, heap[df][idx])
                     /\ heap[df][idx].alert_hash = k
       /\ pc' = "loop" =>
            DOMAIN suppression_end' =
                {processed_alerts'[i].alert_hash : i \in 1..Len(processed_alerts')}
      ]_vars

\* A second invocation under way: the first one ended with entries for two
\* keys, this one has emitted one survivor and holds one entry.
C14_Witness ==
    /\ pc = "loop"
    /\ mode = "reapply"
    /\ idx = 2
    /\ Cardinality(KeysOf(heap[session_state.processed_alerts])) = 2
    /\ Cardinality(DOMAIN suppression_end) = 1
    /\ Len(processed_alerts) = 1

\* ----------------------------------------------------------------- C15
\* C15: order independence: for an input whose same-key events have pairwise
\* distinct timestamps, the set of surviving events is the same for every
\* permutation of the input sequence.
C15_OrderIndependent ==
    (pc = "done" /\ mode = "permuted") =>
        IdSetOf(Returned) = IdSetOf(heap[session_state.processed_alerts])

\* A call on a permutation that is not sorted by timestamp, in which an
\* event was suppressed.
C15_Witness ==
    /\ pc = "done"
    /\ mode = "permuted"
    /\ ~IsSortedByTimestamp(ArgFrame)
    /\ IdsOf(ArgFrame) # IdsOf(OriginalAlerts)
    /\ Len(Returned) < Len(ArgFrame)

\* ----------------------------------------------------------------- C13
\* C13: the grouping key is the literal-fields-equal policy: two events get
\* the same alert_hash if and only if their service, alert_type and severity
\* are all equal; computing the hash of an event again gives the same value,
\* and the hash does not depend on alert_id or timestamp.
HashedRows ==
    UNION {{heap[r][i] : i \in 1..Len(heap[r])} : r \in 1..Len(heap)}

C13_HashEqualIffFieldsEqual ==
    \A r1, r2 \in {r \in HashedRows : "alert_hash" \in DOMAIN r} :
        (r1.alert_hash = r2.alert_hash) <=>
            (/\ r1.service = r2.service
             /\ r1.alert_type = r2.alert_type
             /\ r1.severity = r2.severity)

\* The hash column computed a second time, on a frame that holds two events
\* equal in the three fields but different in id and timestamp, and an event
\* that differs from them in the severity alone.
C13_Witness ==
    /\ mode = "reapply"
    /\ pc = "loop"
    /\ \E a, b, c \in {r \in HashedRows : "alert_hash" \in DOMAIN r} :
          /\ a.alert_id # b.alert_id
          /\ a.timestamp # b.timestamp
          /\ a.alert_hash = b.alert_hash
          /\ c.service = a.service
          /\ c.alert_type = a.alert_type
          /\ c.severity # a.severity
          /\ c.alert_hash # a.alert_hash

\* ----------------------------------------------------------------- C17
\* C17: an event whose timestamp is null/NaN/missing is rejected with an
\* InvalidTimestamp error instead of being processed: the call on an input
\* holding such an event does not complete, the event is never kept and never
\* sets an expiry.
C17_NullTimestampRejected ==
    (\E i \in 1..Len(OriginalAlerts) : OriginalAlerts[i].timestamp = NaT) =>
        /\ pc \in {"call", "loop", "raised"}
        /\ \A i \in 1..Len(processed_alerts) : processed_alerts[i].timestamp # NaT
        /\ \A k \in DOMAIN suppression_end : suppression_end[k] # NaT

\* ----------------------------------------------------------------- C20
\* C20: rule creation requires a name: a submission with an empty name
\* reports an error and leaves the stored rule list unchanged; a submission
\* with a non-empty name appends exactly one rule, holding the submitted
\* values, at the end of the list and leaves the earlier rules unchanged.
C20_RuleCreationRequiresName ==
    [][(rb_run' # rb_run /\ rb_form' # NoForm) =>
          IF rb_form'.values.name = ""
          THEN /\ rb_form'.message = "error"
               /\ rb_session_state' = rb_session_state
          ELSE /\ rb_form'.message = "success"
               /\ Len(RulesOf(rb_session_state')) = Len(RulesOf(rb_session_state)) + 1
               /\ \A i \in 1..Len(RulesOf(rb_session_state)) :
                     RulesOf(rb_session_state')[i] = RulesOf(rb_session_state)[i]
               /\ RulesOf(rb_session_state')[Len(RulesOf(rb_session_state'))] =
                     rb_form'.values]_vars

\* A second, different rule has been appended to a list that held one.
C20_Witness ==
    /\ rb_form # NoForm
    /\ rb_form.message = "success"
    /\ rb_run = 2
    /\ Len(RulesOf(rb_session_state)) = 2
    /\ rb_session_state.rules[1] # rb_session_state.rules[2]
    /\ rb_session_state.rules[2] = rb_form.values

\* ----------------------------------------------------------------- C18
\* C18: every alert placed in a correlation group satisfies all criteria of
\* the selected rule (service and alert type equal to the rule's unless
\* 'Any', the severity criterion, value >= threshold), all alerts of a group
\* belong to the same service, every alert of a group lies within
\* [t, t + time_window] of the group's earliest alert t, and a group is
\* reported only if it has at least two alerts.  The severity criterion is
\* taken as the code applies it (equal to the rule's), which implies the
\* reading as a minimum level.
MeetsRule(alert, rule) ==
    /\ rule.service = "Any" \/ alert.service = rule.service
    /\ rule.alert_type = "Any" \/ alert.alert_type = rule.alert_type
    /\ rule.severity = "Any" \/ alert.severity = rule.severity
    /\ alert.value >= rule.threshold

Earliest(group) ==
    CHOOSE t \in ColumnValues(group, "timestamp") :
        \A u \in ColumnValues(group, "timestamp") : t <= u

C18_GroupsSatisfyRule ==
    rb_pc = "shown" =>
        \A g \in 1..Len(rb_correlated_alerts) :
            LET group == rb_correlated_alerts[g] IN
            /\ Len(group) >= 2
            /\ \A i \in 1..Len(group) :
                  /\ MeetsRule(group[i], rb_rule)
                  /\ group[i].service = group[1].service
                  /\ group[i].timestamp >= Earliest(group)
                  /\ group[i].timestamp <= Earliest(group) + rb_rule.time_window

\* A rule with a service, an alert type and a severity has been applied and
\* reports a group, while an alert that passed the filter, of the group's
\* service, lies outside the group's window.
C18_Witness ==
    /\ rb_pc = "shown"
    /\ rb_rule.service # "Any"
    /\ rb_rule.alert_type # "Any"
    /\ rb_rule.severity # "Any"
    /\ Len(rb_correlated_alerts) >= 1
    /\ \E i \in 1..Len(rb_filtered_df) :
          /\ rb_filtered_df[i].service = rb_correlated_alerts[1][1].service
          /\ \A j \in 1..Len(rb_correlated_alerts[1]) :
                rb_correlated_alerts[1][j] # rb_filtered_df[i]

\* ----------------------------------------------------------------- C19
\* C19: the rule's Severity field selects the minimum severity level: a rule
\* with severity S (not 'Any') admits every alert whose severity is S or
\* higher in the order Low < Medium < High that meets the other criteria.
SeverityRank(v) ==
    CASE v = "Low" -> 1
      [] v = "Medium" -> 2
      [] v = "High" -> 3

C19_SeverityIsMinimumLevel ==
    (rb_pc = "shown" /\ rb_rule.severity # "Any") =>
        \A i \in 1..Len(rb_df) :
            (/\ rb_rule.service = "Any" \/ rb_df[i].service = rb_rule.service
             /\ rb_rule.alert_type = "Any" \/ rb_df[i].alert_type = rb_rule.alert_type
             /\ rb_df[i].value >= rb_rule.threshold
             /\ SeverityRank(rb_df[i].severity) >= SeverityRank(rb_rule.severity))
                => \E j \in 1..Len(rb_filtered_df) : rb_filtered_df[j] = rb_df[i]

\* ----------------------------------------------------------------- C21
\* C21: the path analysis classifies the average gap between consecutive
\* alerts on the path as documented: 'Potential cascading failure' exactly
\* when the average is less than 5 minutes, 'Moderate correlation' exactly
\* when it is between 5 and 15 minutes, 'Low correlation' exactly when it is
\* more than 15 minutes; with fewer than two alerts on the path no
\* classification is shown.
C21_ClassifiedAsDocumented ==
    tp.pc = "shown" =>
        IF Len(tp.path_timestamps) < 2
        THEN tp.message = "Not enough alerts on path for correlation analysis."
        ELSE LET num == tp.avg_time_diff.num
                 den == tp.avg_time_diff.den IN
             /\ (tp.message = "Potential cascading failure detected!")
                    <=> (num < 5 * den)
             /\ (tp.message = "Moderate correlation between alerts on path.")
                    <=> (num >= 5 * den /\ num <= 15 * den)
             /\ (tp.message = "Low correlation between alerts on path.")
                    <=> (num > 15 * den)

\* ----------------------------------------------------------------- C22
\* C22: for every service in the alert set the displayed Priority Score is
\* 4 * (its Critical alerts) + 3 * (High) + 2 * (Medium) + 1 * (Low), also
\* when some severity level occurs in no alert of the data set, and the
\* services are listed in non-increasing score order.
CountOf(frame, s, v) ==
    Cardinality({i \in 1..Len(frame) : frame[i].service = s /\ frame[i].severity = v})

C22_PriorityScoreAsDocumented ==
    pr.pc = "shown" =>
        /\ {pr.priority_services[i].service : i \in 1..Len(pr.priority_services)} =
               ColumnValues(pr.alerts, "service")
        /\ \A i \in 1..Len(pr.priority_services) :
              LET e == pr.priority_services[i] IN
              e.score = 4 * CountOf(pr.alerts, e.service, "Critical")
                          + 3 * CountOf(pr.alerts, e.service, "High")
                          + 2 * CountOf(pr.alerts, e.service, "Medium")
                          + 1 * CountOf(pr.alerts, e.service, "Low")
        /\ \A i, j \in 1..Len(pr.priority_services) :
              i < j => pr.priority_services[i].score >= pr.priority_services[j].score

\* ----------------------------------------------------------------- C23
\* C23: perform_rca builds a graph with one node per alert and an edge
\* between two distinct alerts exactly when they share a cluster label other
\* than -1 (noise alerts have no edges); the predicted root cause is the
\* service of an alert of maximum degree in that graph, so whenever at least
\* one cluster exists it is the service of an alert in a largest cluster.
RowOfAlert(frame, id) == frame[CHOOSE i \in 1..Len(frame) : frame[i].alert_id = id]

ClusterSize(frame, c) == Cardinality(ClusterMembers(frame, c))

C23_RootCauseInLargestCluster ==
    rca.pc = "shown" =>
        LET frame == rca.correlated_alerts
            ids == {frame[i].alert_id : i \in 1..Len(frame)}
            central == RowOfAlert(frame, rca.most_central_alert) IN
        /\ {rca.G.nodes[i] : i \in 1..Len(rca.G.nodes)} = ids
        /\ Len(rca.G.nodes) = Len(frame)
        /\ \A a, b \in ids :
              ({a, b} \in rca.G.edges) <=>
                  /\ a # b
                  /\ RowOfAlert(frame, a).cluster = RowOfAlert(frame, b).cluster
                  /\ RowOfAlert(frame, a).cluster # Noise
        /\ \A e \in rca.G.edges : e \subseteq ids /\ Cardinality(e) = 2
        /\ \A a \in ids : Degree(rca.G, a) <= Degree(rca.G, rca.most_central_alert)
        /\ rca.predicted_root_cause = central.service
        /\ (\E i \in 1..Len(frame) : frame[i].cluster # Noise) =>
              /\ central.cluster # Noise
              /\ \A c \in ColumnValues(frame, "cluster") \ {Noise} :
                    ClusterSize(frame, c) <= ClusterSize(frame, central.cluster)

\* Two clusters of different sizes and a noise alert; the first alert is not
\* in the larger cluster and its service is not the one predicted.
C23_Witness ==
    /\ rca.pc = "shown"
    /\ LET frame == rca.correlated_alerts IN
       /\ ClusterSize(frame, 0) # ClusterSize(frame, 1)
       /\ ClusterSize(frame, 1) >= 2
       /\ ClusterSize(frame, Noise) >= 1
       /\ frame[1].cluster # RowOfAlert(frame, rca.most_central_alert).cluster
       /\ frame[1].service # rca.predicted_root_cause

\* ---------------------------------------------------------------- C25
\* C25: when a call with a window w > 0 has returned, any two returned events
\* with the same grouping key have timestamps that differ by more than w, and
\* every event of the input that was not returned lies at most w after a
\* returned event of its key whose timestamp is earlier or equal.
C25_SurvivorsSeparated ==
    (pc = "done" /\ suppression_window > 0) =>
        /\ \A i, j \in 1..Len(Returned) :
              (i # j /\ Returned[i].alert_hash = Returned[j].alert_hash) =>
                  \/ Returned[j].timestamp - Returned[i].timestamp > WindowTicks
                  \/ Returned[i].timestamp - Returned[j].timestamp > WindowTicks
        /\ \A k \in 1..Len(ArgFrame) :
              ArgFrame[k].alert_id \notin IdSetOf(Returned) =>
                  \E i \in 1..Len(Returned) :
                      /\ Returned[i].alert_hash = alert_hash_of(ArgFrame[k])
                      /\ Returned[i].timestamp <= ArgFrame[k].timestamp
                      /\ ArgFrame[k].timestamp <=
                            Returned[i].timestamp + WindowTicks

\* Three events of one key: the second, exactly at the end of the window of
\* the first, is suppressed and the third, beyond it, is returned.
C25_Witness ==
    /\ AppDone
    /\ suppression_window > 0
    /\ Len(OriginalAlerts) = 3
    /\ Len(Returned) = 2
    /\ Returned[1].alert_hash = Returned[2].alert_hash
    /\ \E k \in 1..3 :
          /\ OriginalAlerts[k].alert_id \notin IdSetOf(Returned)
          /\ alert_hash_of(OriginalAlerts[k]) = Returned[1].alert_hash
          /\ OriginalAlerts[k].timestamp = Returned[1].timestamp + WindowTicks

\* ------------------------------------------------------------ the scored quiz
\* The questions whose q{i}_answered flag is set.
AnsweredQuestions(q) ==
    {i \in 0..(NumQuestions - 1) :
        /\ answered_key(i) \in DOMAIN q.session_state
        /\ q.session_state[answered_key(i)]}

\* The step is a press of "Retake Quiz" on a page that offers it.
RetakePressed == RetakeButton \in quiz.buttons /\ quiz'.clicked = RetakeButton

\* C24: in every run of the quiz other than a retake, a question answered
\* before the run is not offered its submit button by the run, stays answered,
\* and the run changes questions_answered only by the number of questions it
\* newly answers (at most one) and quiz_score by at most that number; a press of
\* the submit button of an answered question changes neither counter.
C24_AnsweredQuestionSubmittedOnce ==
    [][(quiz.pc = "page" /\ ~RetakePressed) =>
          LET before == AnsweredQuestions(quiz)
              after == AnsweredQuestions(quiz')
              newly == after \ before IN
          /\ \A i \in before :
                /\ SubmitButton(i) \notin quiz'.buttons
                /\ i \in after
                /\ quiz'.clicked = SubmitButton(i) =>
                      /\ quiz'.session_state["quiz_score"] =
                            quiz.session_state["quiz_score"]
                      /\ quiz'.session_state["questions_answered"] =
                            quiz.session_state["questions_answered"]
          /\ Cardinality(newly) <= 1
          /\ quiz'.session_state["questions_answered"] =
                quiz.session_state["questions_answered"] + Cardinality(newly)
          /\ quiz'.session_state["quiz_score"] - quiz.session_state["quiz_score"]
                \in 0..Cardinality(newly)]_vars

\* The submit button of an answered question, still on the page of the run
\* that answered it, has been pressed: the run it started did not show it.
C24_Witness ==
    /\ quiz.pc = "page"
    /\ \E i \in AnsweredQuestions(quiz) :
          /\ quiz.clicked = SubmitButton(i)
          /\ SubmitButton(i) \notin quiz.buttons
    /\ quiz.session_state["questions_answered"] < NumQuestions

\* C26: on every page of the quiz, questions_answered is the number of
\* questions whose q{i}_answered flag is true, and
\* 0 <= quiz_score <= questions_answered <= number of questions.
C26_QuizCountersConsistent ==
    quiz.pc = "page" =>
        /\ quiz.session_state["questions_answered"] =
              Cardinality(AnsweredQuestions(quiz))
        /\ 0 <= quiz.session_state["quiz_score"]
        /\ quiz.session_state["quiz_score"] <=
              quiz.session_state["questions_answered"]
        /\ quiz.session_state["questions_answered"] <= NumQuestions

\* Every question answered, some right and some wrong.
C26_Witness ==
    /\ quiz.pc = "page"
    /\ quiz.session_state["questions_answered"] = NumQuestions
    /\ quiz.session_state["quiz_score"] \in 1..(NumQuestions - 1)

\* C27: a run offers "Retake Quiz" only with questions_answered equal to the
\* number of questions, and the run a press of it starts leaves every
\* q{i}_answered flag false, quiz_score = 0 and questions_answered = 0.
C27_RetakeOnlyWhenCompleteAndResets ==
    [][/\ RetakeButton \in quiz'.buttons =>
             quiz'.session_state["questions_answered"] = NumQuestions
       /\ RetakePressed =>
             /\ \A i \in 0..(NumQuestions - 1) :
                   /\ answered_key(i) \in DOMAIN quiz'.session_state
                   /\ ~quiz'.session_state[answered_key(i)]
             /\ quiz'.session_state["quiz_score"] = 0
             /\ quiz'.session_state["questions_answered"] = 0]_vars

\* The page right after "Retake Quiz": every question open again.
C27_Witness ==
    /\ quiz.pc = "page"
    /\ quiz.clicked = RetakeButton
    /\ quiz.buttons = {SubmitButton(i) : i \in 0..(NumQuestions - 1)}

====
